---- MODULE Spec2Model ----
(***************************************************************************)
(* ClusterDistribute: distribute.py (template parameter resolution,        *)
(* partitioning, script materialization) and reprocess.py (failure         *)
(* reconciliation).                                                         *)
(*                                                                         *)
(* Text is a sequence of one-character strings, so that splitting,         *)
(* stripping, joining and sorting are computed character by character.     *)
(* A Python dict is a sequence of <<key, value>> pairs with distinct keys, *)
(* in insertion order. A Python list is a sequence, a Python set a set.    *)
(***************************************************************************)
EXTENDS Integers, Sequences, FiniteSets, TLC

VARIABLES
    \* ---- split(items, partitions) called on its own
    sp_items, sp_partitions, sp_result, sp_pc,
    \* ---- parse_parameters_file(path, params) called on its own
    pf_params, pf_content, pf_result, pf_pc,
    \* ---- distribute.py main()
    args, fs, pc, path_errs, template, params, pending, param_vals, resolved,
    sample_groups, idx, written, exit_code, error, reload,
    \* ---- reprocess.py main()
    r_args, r_logs, r_samples, r_outputs, r_pc, failed_runs, failed_samples,
    r_out, r_exit

splitVars == <<sp_items, sp_partitions, sp_result, sp_pc>>
parseVars == <<pf_params, pf_content, pf_result, pf_pc>>
distVars  == <<args, fs, pc, path_errs, template, params, pending, param_vals, resolved,
               sample_groups, idx, written, exit_code, error, reload>>
reproVars == <<r_args, r_logs, r_samples, r_outputs, r_pc, failed_runs,
               failed_samples, r_out, r_exit>>
vars == <<splitVars, parseVars, distVars, reproVars>>

(***************************************************************************)
(* Bounds of the model.                                                    *)
(***************************************************************************)
MaxItems == 4        \* split: longest list of items
MaxPartition == 3    \* split: largest chunk size
MaxFileLines == 2    \* parse_parameters_file: most lines of a parameter file
MaxSamples == 3      \* main: longest sample list
MaxSize == 2         \* main: largest -n/--partition
MaxPresplit == 2     \* main: most -s/--split_sample_ids_fps paths
MaxLogs == 2         \* reprocess: most log files
MaxSampleFiles == 2  \* reprocess: most sample-subset files

(***************************************************************************)
(* Python values.                                                          *)
(***************************************************************************)
None == <<"None">>
NL == "\n"
Whitespace == {" ", NL, "\t"}

Min(a, b) == IF a < b THEN a ELSE b

\* All sequences over S of length at most n.
SeqUpTo(S, n) == UNION {[1..k -> S] : k \in 0..n}

\* A slice that stops one element early.
PySliceShort(items, i, j) == SubSeq(items, i + 1, Min(j - 1, Len(items)))

\* items[i:j] for 0 <= i, 0 <= j: the slice is clipped to the list.
PySlice(items, i, j) == SubSeq(items, i + 1, Min(j, Len(items)))

\* Code points of the characters the model uses (Python orders str by them).
Ord(c) ==
    CASE c = "\t" -> 9   [] c = NL -> 10   [] c = " " -> 32  [] c = "." -> 46
      [] c = "/" -> 47  [] c = "1" -> 49  [] c = "2" -> 50  [] c = "3" -> 51
      [] c = "4" -> 52  [] c = "7" -> 55  [] c = "9" -> 57  [] c = ":" -> 58
      [] c = "A" -> 65  [] c = "B" -> 66  [] c = "C" -> 67  [] c = "D" -> 68
      [] c = "_" -> 95  [] c = "a" -> 97  [] c = "b" -> 98  [] c = "d" -> 100
      [] c = "f" -> 102 [] c = "i" -> 105 [] c = "j" -> 106 [] c = "l" -> 108
      [] c = "m" -> 109 [] c = "o" -> 111 [] c = "p" -> 112 [] c = "r" -> 114
      [] c = "s" -> 115 [] c = "t" -> 116 [] c = "u" -> 117 [] c = "x" -> 120
      [] c = "y" -> 121 [] OTHER -> 127

\* s < t for str: lexicographic by code point, a proper prefix first.
RECURSIVE StrLess(_, _)
StrLess(s, t) ==
    IF t = <<>> THEN FALSE
    ELSE IF s = <<>> THEN TRUE
    ELSE IF Head(s) = Head(t) THEN StrLess(Tail(s), Tail(t))
    ELSE Ord(Head(s)) < Ord(Head(t))

\* sep.join(ss)
RECURSIVE Join(_, _)
Join(ss, sep) ==
    IF ss = <<>> THEN <<>>
    ELSE IF Len(ss) = 1 THEN Head(ss)
    ELSE Head(ss) \o sep \o Join(Tail(ss), sep)

\* Index of the first occurrence of character c in s, 0 when there is none.
RECURSIVE FirstIndex(_, _, _)
FirstIndex(s, c, i) ==
    IF i > Len(s) THEN 0
    ELSE IF s[i] = c THEN i
    ELSE FirstIndex(s, c, i + 1)

\* s.split(c): every piece between separators, at least one piece.
RECURSIVE StrSplit(_, _)
StrSplit(s, c) ==
    LET k == FirstIndex(s, c, 1) IN
    IF k = 0 THEN <<s>>
    ELSE <<SubSeq(s, 1, k - 1)>> \o StrSplit(SubSeq(s, k + 1, Len(s)), c)

\* s.split(c, maxsplit=1): one piece when c does not occur, else two.
StrSplit1(s, c) ==
    LET k == FirstIndex(s, c, 1) IN
    IF k = 0 THEN <<s>>
    ELSE <<SubSeq(s, 1, k - 1), SubSeq(s, k + 1, Len(s))>>

\* s.strip()
RECURSIVE LStrip(_)
LStrip(s) ==
    IF s # <<>> /\ Head(s) \in Whitespace THEN LStrip(Tail(s)) ELSE s
RECURSIVE RStrip(_)
RStrip(s) ==
    IF s # <<>> /\ s[Len(s)] \in Whitespace THEN RStrip(SubSeq(s, 1, Len(s) - 1))
    ELSE s
Strip(s) == RStrip(LStrip(s))

\* Iterating a text file: each line keeps its newline; "" has no lines.
RECURSIVE FileLines(_)
FileLines(text) ==
    LET k == FirstIndex(text, NL, 1) IN
    IF text = <<>> THEN <<>>
    ELSE IF k = 0 THEN <<text>>
    ELSE <<SubSeq(text, 1, k)>> \o FileLines(SubSeq(text, k + 1, Len(text)))

\* text.splitlines(): the lines without their newlines.
RECURSIVE SplitLines(_)
SplitLines(text) ==
    LET k == FirstIndex(text, NL, 1) IN
    IF text = <<>> THEN <<>>
    ELSE IF k = 0 THEN <<text>>
    ELSE <<SubSeq(text, 1, k - 1)>> \o SplitLines(SubSeq(text, k + 1, Len(text)))

\* str(i) for i >= 0: the decimal digits.
Digit(d) ==
    CASE d = 0 -> "0" [] d = 1 -> "1" [] d = 2 -> "2" [] d = 3 -> "3"
      [] d = 4 -> "4" [] d = 5 -> "5" [] d = 6 -> "6" [] d = 7 -> "7"
      [] d = 8 -> "8" [] d = 9 -> "9"
RECURSIVE Str(_)
Str(i) == IF i < 10 THEN <<Digit(i)>> ELSE Str(i \div 10) \o <<Digit(i % 10)>>

\* ---- dict --------------------------------------------------------------
Keys(d) == {d[i][1] : i \in 1..Len(d)}
HasKey(d, k) == k \in Keys(d)
Get(d, k) == d[CHOOSE i \in 1..Len(d) : d[i][1] = k][2]
\* d[k] = v: an existing key keeps its place, a new key goes last.
DictSet(d, k, v) ==
    IF HasKey(d, k)
    THEN [i \in 1..Len(d) |-> IF d[i][1] = k THEN <<k, v>> ELSE d[i]]
    ELSE Append(d, <<k, v>>)
\* The dict as a mathematical map, for == between dicts.
AsMap(d) == [k \in Keys(d) |-> Get(d, k)]

(***************************************************************************)
(* distribute.py: split                                                    *)
(***************************************************************************)
SampleIDs == {<<"A">>, <<"B">>}

RECURSIVE SplitLoop(_, _, _, _)
SplitLoop(items, partitions, i, acc) ==
    IF i >= Len(items) THEN acc
    ELSE SplitLoop(items, partitions, i + partitions,
                   Append(acc, PySlice(items, i, i + partitions)))

split(items, partitions) ==
    IF partitions > 0 THEN SplitLoop(items, partitions, 0, <<>>) ELSE <<>>

\* ---- split called on a list of sample IDs and a chunk size ---------------
SplitIdle ==
    /\ sp_items = <<>> /\ sp_partitions = 0 /\ sp_result = <<>> /\ sp_pc = "idle"

SplitInit ==
    /\ sp_items \in SeqUpTo(SampleIDs, MaxItems)
    /\ sp_partitions \in -1..MaxPartition
    /\ sp_result = <<>>
    /\ sp_pc = "call"

SplitCall ==
    /\ sp_pc = "call"
    /\ sp_result' = split(sp_items, sp_partitions)
    /\ sp_pc' = "done"
    /\ UNCHANGED <<sp_items, sp_partitions>>
    /\ UNCHANGED <<parseVars, distVars, reproVars>>

(***************************************************************************)
(* distribute.py: parse_parameters_file and ParametersException            *)
(***************************************************************************)
job_id == <<"j", "o", "b", "_", "i", "d">>
samples_fp == <<"s", "a", "m", "p", "l", "e", "s", "_", "f", "p">>
Reserved == {job_id, samples_fp}

\* ParametersException(missing_params): the names it carries, and the names
\* its message lists ("  " + p for each p of missing_params).
ParametersException(missing_params) ==
    [kind |-> "ParametersException",
     value |-> <<>>,
     missing_params |-> missing_params,
     message |-> {<<" ", " ">> \o p : p \in missing_params}]

ValueError == [kind |-> "ValueError", value |-> <<>>, missing_params |-> {},
               message |-> {}]
Returned(v) == [kind |-> "ok", value |-> v, missing_params |-> {}, message |-> {}]

\* The loop over the file's lines: p, v = [item.strip() for item in
\* line.split(":", maxsplit=1)] raises ValueError unless there are two items.
RECURSIVE ParseLoop(_, _)
ParseLoop(lines, file_params) ==
    IF lines = <<>> THEN Returned(file_params)
    ELSE LET items == StrSplit1(Head(lines), ":") IN
         IF Len(items) # 2 THEN ValueError
         ELSE ParseLoop(Tail(lines),
                        DictSet(file_params, Strip(items[1]), Strip(items[2])))

\* A parse that raises for any missing name, reserved or not.
parse_raises_on_reserved(content, ps) ==
    LET r == ParseLoop(FileLines(content), <<>>) IN
    IF r.kind # "ok" THEN r
    ELSE LET missing == ps \ Keys(r.value) IN
         IF missing # {} THEN ParametersException(missing)
         ELSE Returned(r.value)

parse_parameters_file(content, ps) ==
    LET r == ParseLoop(FileLines(content), <<>>) IN
    IF r.kind # "ok" THEN r
    ELSE LET missing == ps \ Keys(r.value) IN
         IF missing \ Reserved # {} THEN ParametersException(missing)
         ELSE Returned(r.value)

\* ---- inputs: placeholder names and parameter files ----------------------
NameA == <<"a">>
NameB == <<"b">>
PlaceholderNames == {NameA, NameB, job_id, samples_fp}

CandidateLines ==
    { <<"a", ":", " ", "x">>,                    \* a: x
      <<"b", ":", "y", ":", "x">>,               \* b:y:x
      <<" ", "a", " ", ":", " ", "y", " ">>,     \* surrounding whitespace
      job_id \o <<":", " ", "9">>,               \* a reserved name
      <<"x", ":", "y">>,                         \* a key no template uses
      <<>>,                                      \* a blank line
      <<"a", "b">> }                             \* no delimiter

FileText(ls, trailing) == Join(ls, <<NL>>) \o (IF trailing THEN <<NL>> ELSE <<>>)
ParamFileTexts ==
    {FileText(ls, t) : ls \in SeqUpTo(CandidateLines, MaxFileLines), t \in BOOLEAN}

NoResult == [kind |-> "none", value |-> <<>>, missing_params |-> {}, message |-> {}]

ParseIdle ==
    /\ pf_params = {} /\ pf_content = <<>> /\ pf_result = NoResult /\ pf_pc = "idle"

ParseInit ==
    /\ pf_params \in SUBSET PlaceholderNames
    /\ pf_content \in ParamFileTexts
    /\ pf_result = NoResult
    /\ pf_pc = "call"

ParseCall ==
    /\ pf_pc = "call"
    /\ pf_result' = parse_parameters_file(pf_content, pf_params)
    /\ pf_pc' = "done"
    /\ UNCHANGED <<pf_params, pf_content>>
    /\ UNCHANGED <<splitVars, distVars, reproVars>>

(***************************************************************************)
(* distribute.py: main                                                     *)
(***************************************************************************)
\* ---- os.path ------------------------------------------------------------
RECURSIVE LastIndex(_, _, _)
LastIndex(s, c, i) ==
    IF i = 0 THEN 0 ELSE IF s[i] = c THEN i ELSE LastIndex(s, c, i - 1)

basename(p) == SubSeq(p, LastIndex(p, "/", Len(p)) + 1, Len(p))

\* splitext: the extension starts at the last dot, unless only dots precede it.
splitext(name) ==
    LET k == LastIndex(name, ".", Len(name)) IN
    IF k > 0 /\ \E i \in 1..(k - 1) : name[i] # "."
    THEN <<SubSeq(name, 1, k - 1), SubSeq(name, k, Len(name))>>
    ELSE <<name, <<>>>>

join(a, b) ==
    IF b # <<>> /\ Head(b) = "/" THEN b
    ELSE IF a = <<>> \/ a[Len(a)] = "/" THEN a \o b
    ELSE a \o <<"/">> \o b

\* ---- the command line and the files it names -----------------------------
Dot == <<".">>
OutDir == <<"o">>
ListPath == <<"l">>
ParamsPath == <<"p", "f">>
SavePath == <<"s", "v">>
SubsetPaths == {<<"s", "1">>, <<"s", "2">>}
TemplatePaths == {<<"r", "_", "t", ".", "p">>, <<"d", "/", "r", "t">>}
PartitionDefault == 10

\* argparse: exactly one of -l and -s is given, -s with at least one path.
ArgsSet ==
    LET Mode == {<<ListPath, None, n>> : n \in 0..MaxSize}
                \cup {<<None, fps, PartitionDefault>> :
                        fps \in SeqUpTo(SubsetPaths, MaxPresplit) \ {<<>>}}
    IN {[job_template |-> t,
         sample_ids_list_fp |-> m[1],
         split_sample_ids_fps |-> m[2],
         partition |-> m[3],
         parameters_fp |-> pf,
         output_dir |-> o,
         save_params |-> sv] :
            t \in TemplatePaths, m \in Mode, pf \in {None, ParamsPath},
            o \in {Dot, OutDir}, sv \in {None, SavePath}}

Range(f) == {f[i] : i \in DOMAIN f}

\* The paths main verifies without create.
InputPaths(a) ==
    {a.job_template}
    \cup (IF a.sample_ids_list_fp # None THEN {a.sample_ids_list_fp} ELSE {})
    \cup (IF a.split_sample_ids_fps # None THEN Range(a.split_sample_ids_fps) ELSE {})
    \cup (IF a.parameters_fp # None THEN {a.parameters_fp} ELSE {})

\* The file system before the run: which of the named paths exist, and
\* whether os.mkdir of a missing output directory would succeed. The texts
\* of the parameter file and of the sample list are recorded when read.
FsSet(a) ==
    LET Named == InputPaths(a) \cup (IF a.output_dir = Dot THEN {} ELSE {OutDir})
        All == {[exists |-> e, mkdir_ok |-> m, params_text |-> <<>>,
                 samples_text |-> <<>>, opened |-> {}] :
                    e \in SUBSET Named, m \in BOOLEAN}
    IN {f \in All : f.mkdir_ok \/ (OutDir \in Named /\ OutDir \notin f.exists)}

\* ---- templates: literal text and {name} placeholders ---------------------
Lit(text) == <<"lit", text>>
Ph(name) == <<"ph", name>>
Templates ==
    { <<Ph(NameA), Lit(<<" ">>), Ph(samples_fp), Lit(<<" ">>), Ph(job_id), Ph(NameA)>>,
      <<Lit(<<"x">>), Ph(NameA), Ph(NameB)>>,
      <<Ph(job_id), Lit(<<NL>>)>> }

\* set(re.findall(r'\{(.*?)\}', template))
Placeholders(t) == {t[i][2] : i \in {j \in 1..Len(t) : t[j][1] = "ph"}}

\* template.format(**d): KeyError when a placeholder has no value.
RECURSIVE FormatLoop(_, _)
FormatLoop(t, d) ==
    IF t = <<>> THEN <<>>
    ELSE (IF Head(t)[1] = "ph" THEN Get(d, Head(t)[2]) ELSE Head(t)[2])
         \o FormatLoop(Tail(t), d)

format(t, d) ==
    IF Placeholders(t) \subseteq Keys(d)
    THEN [kind |-> "ok", text |-> FormatLoop(t, d)]
    ELSE [kind |-> "KeyError", text |-> <<>>]

\* ---- verify_path ---------------------------------------------------------
\* A verify_path that reports every path as present.
verify_path_always(path, create, f) == TRUE

\* The value verify_path returns.
verify_path(path, create, f) ==
    IF path \notin f.exists
    THEN (IF create THEN f.mkdir_ok ELSE FALSE)
    ELSE TRUE

\* The directories os.mkdir has made once verify_path(path, create) returns.
verify_path_fs(path, create, f) ==
    IF path \notin f.exists /\ create /\ f.mkdir_ok
    THEN [f EXCEPT !.exists = @ \cup {path}]
    ELSE f

\* ---- the files the run writes: path -> text ------------------------------
Write(w, path, text) ==
    [q \in (DOMAIN w) \cup {path} |-> IF q = path THEN text ELSE w[q]]

DistIdle ==
    /\ args = [job_template |-> <<>>, sample_ids_list_fp |-> None,
               split_sample_ids_fps |-> None, partition |-> PartitionDefault,
               parameters_fp |-> None, output_dir |-> Dot, save_params |-> None]
    /\ fs = [exists |-> {}, mkdir_ok |-> TRUE, params_text |-> <<>>,
             samples_text |-> <<>>, opened |-> {}]
    /\ pc = "idle" /\ path_errs = <<>>
    /\ template = <<>> /\ params = {} /\ pending = {} /\ param_vals = <<>>
    /\ resolved = <<>> /\ sample_groups = <<>> /\ idx = 0 /\ written = <<>>
    /\ exit_code = -1 /\ error = "" /\ reload = NoResult

DistInit ==
    /\ args \in ArgsSet
    /\ fs \in FsSet(args)
    /\ pc = "verify" /\ path_errs = <<>>
    /\ template = <<>> /\ params = {} /\ pending = {} /\ param_vals = <<>>
    /\ resolved = <<>> /\ sample_groups = <<>> /\ idx = 0 /\ written = <<>>
    /\ exit_code = -1 /\ error = "" /\ reload = NoResult

\* main, lines 146-165: verify every path, then exit(1) if one failed.
VerifyPaths ==
    /\ pc = "verify"
    /\ LET create == args.output_dir # Dot
           fps == IF args.split_sample_ids_fps # None
                  THEN args.split_sample_ids_fps ELSE <<>>
           errs ==
             <<verify_path(args.job_template, FALSE, fs)>>
             \o (IF args.sample_ids_list_fp # None
                 THEN <<verify_path(args.sample_ids_list_fp, FALSE, fs)>> ELSE <<>>)
             \o [i \in 1..Len(fps) |-> verify_path(fps[i], FALSE, fs)]
             \o (IF args.parameters_fp # None
                 THEN <<verify_path(args.parameters_fp, FALSE, fs)>> ELSE <<>>)
             \o (IF create THEN <<verify_path(args.output_dir, TRUE, fs)>> ELSE <<>>)
       IN /\ path_errs' = errs
          /\ fs' = IF create THEN verify_path_fs(args.output_dir, TRUE, fs) ELSE fs
          /\ IF \A i \in 1..Len(errs) : errs[i]
             THEN pc' = "template" /\ UNCHANGED <<exit_code, error>>
             ELSE pc' = "exit" /\ exit_code' = 1 /\ error' = "paths"
    /\ UNCHANGED <<args, template, params, pending, param_vals, resolved,
                   sample_groups, idx, written, reload>>
    /\ UNCHANGED <<splitVars, parseVars, reproVars>>

\* The parameter files main is run with: every line ends with a newline.
MainLines ==
    { <<"a", ":", " ", "x">>, <<"b", ":", "y", ":", "x">>,
      job_id \o <<":", " ", "9">>, <<>> }
MainParamFiles == {FileText(ls, TRUE) : ls \in SeqUpTo(MainLines, MaxFileLines)}

\* What the user types at a prompt of input_params.
InputValues == {<<"x">>, <<" ", "y">>}

\* main, lines 169-179: read the template, find its parameters, and either
\* start input_params or read the parameter file. sys.exit(pe.message) and an
\* uncaught ValueError both end the process with status 1.
ReadTemplate ==
    /\ pc = "template"
    /\ \E t \in Templates :
        /\ template' = t
        /\ params' = Placeholders(t)
        /\ IF args.parameters_fp = None
           THEN /\ pending' = Placeholders(t)
                /\ pc' = "input"
                /\ UNCHANGED <<fs, param_vals, resolved, exit_code, error>>
           ELSE \E text \in MainParamFiles :
                LET r == parse_parameters_file(text, Placeholders(t)) IN
                /\ fs' = [fs EXCEPT !.params_text = text,
                                    !.opened = @ \cup {args.parameters_fp}]
                /\ pending' = pending
                /\ IF r.kind = "ok"
                   THEN /\ param_vals' = r.value
                        /\ resolved' = r.value
                        /\ pc' = "split"
                        /\ UNCHANGED <<exit_code, error>>
                   ELSE /\ pc' = "exit"
                        /\ exit_code' = 1
                        /\ error' = r.kind
                        /\ UNCHANGED <<param_vals, resolved>>
    /\ UNCHANGED <<args, path_errs, sample_groups, idx, written, reload>>
    /\ UNCHANGED <<splitVars, parseVars, reproVars>>

\* input_params, lines 96-99: one pass of the loop over the set params, in
\* the order the set yields them; a reserved name is skipped.
InputParam ==
    /\ pc = "input"
    /\ \E param \in pending :
        /\ pending' = pending \ {param}
        /\ IF param \notin Reserved
           THEN \E v \in InputValues : param_vals' = DictSet(param_vals, param, v)
           ELSE param_vals' = param_vals
    /\ UNCHANGED <<args, fs, pc, path_errs, template, params, resolved,
                   sample_groups, idx, written, exit_code, error, reload>>
    /\ UNCHANGED <<splitVars, parseVars, reproVars>>

\* input_params, line 101: return param_vals.
InputReturn ==
    /\ pc = "input"
    /\ pending = {}
    /\ resolved' = param_vals
    /\ pc' = "split"
    /\ UNCHANGED <<args, fs, path_errs, template, params, pending, param_vals,
                   sample_groups, idx, written, exit_code, error, reload>>
    /\ UNCHANGED <<splitVars, parseVars, reproVars>>

\* main, lines 183-190: the chunks of the sample list, or one group per
\* pre-split file.
SplitSamples ==
    /\ pc = "split"
    /\ IF args.sample_ids_list_fp # None
       THEN \E ids \in SeqUpTo(SampleIDs, MaxSamples) :
            LET text == FileText(ids, ids # <<>>) IN
            /\ fs' = [fs EXCEPT !.samples_text = text,
                                !.opened = @ \cup {args.sample_ids_list_fp}]
            /\ sample_groups' = split(SplitLines(text), args.partition)
       ELSE /\ sample_groups' = [i \in 1..Len(args.split_sample_ids_fps) |->
                                   <<args.split_sample_ids_fps[i]>>]
            /\ fs' = fs
    /\ idx' = 0
    /\ pc' = "output"
    /\ UNCHANGED <<args, path_errs, template, params, pending, param_vals,
                   resolved, written, exit_code, error, reload>>
    /\ UNCHANGED <<splitVars, parseVars, reproVars>>

\* main, lines 193-194 and 199-202: the names of unit i's files.
js_name == splitext(basename(args.job_template))[1]
js_ext == splitext(basename(args.job_template))[2]
js_prefix == StrSplit(js_name, "_")[1]

\* A job id counted from zero.
UnitJobIdZeroBased(i) == Str(i - 1)

UnitJobId(i) == Str(i)

UnitSamplesFp(i) ==
    IF args.split_sample_ids_fps # None
    THEN args.split_sample_ids_fps[i]
    ELSE join(args.output_dir,
              js_prefix \o <<"_", "s", "a", "m", "p", "l", "e", "s", "_">> \o Str(i)
                        \o <<".", "t", "x", "t">>)

UnitScriptFp(i) == join(args.output_dir, js_prefix \o <<"_">> \o Str(i) \o js_ext)

\* main, lines 212-213: the two reserved entries of unit i.
UnitParams(d, i) == DictSet(DictSet(d, samples_fp, UnitSamplesFp(i)), job_id, UnitJobId(i))

\* main, lines 195-214: one pass of the loop over the groups. open(js_fp, "w")
\* has made the script file before format can raise.
MaterializeUnit ==
    /\ pc = "output"
    /\ idx < Len(sample_groups)
    /\ LET i == idx + 1
           group == sample_groups[i]
           w1 == IF args.split_sample_ids_fps = None
                 THEN Write(written, UnitSamplesFp(i), Join(group, <<NL>>) \o <<NL>>)
                 ELSE written
           pv == UnitParams(param_vals, i)
           r == format(template, pv)
       IN /\ param_vals' = pv
          /\ written' = Write(w1, UnitScriptFp(i), r.text)
          /\ IF r.kind = "ok"
             THEN idx' = i /\ UNCHANGED <<pc, exit_code, error>>
             ELSE idx' = idx /\ pc' = "exit" /\ exit_code' = 1 /\ error' = r.kind
    /\ UNCHANGED <<args, fs, path_errs, template, params, pending, resolved,
                   sample_groups, reload>>
    /\ UNCHANGED <<splitVars, parseVars, reproVars>>

\* Saved lines that leave the reserved entries in.
SavedLinesAll(d) == [i \in 1..Len(d) |-> d[i][1] \o <<":", " ">> \o d[i][2]]

\* main, line 219: the lines of the saved parameter file.
SavedLines(d) ==
    LET keep == {i \in 1..Len(d) : d[i][1] \notin Reserved}
        RECURSIVE Lines(_)
        Lines(i) ==
            IF i > Len(d) THEN <<>>
            ELSE (IF i \in keep THEN <<d[i][1] \o <<":", " ">> \o d[i][2]>> ELSE <<>>)
                 \o Lines(i + 1)
    IN Lines(1)

\* main, lines 216-220, and the return of main: sys.exit(None) is status 0.
SaveParams ==
    /\ pc = "output"
    /\ idx = Len(sample_groups)
    /\ written' = IF args.save_params # None
                  THEN Write(written, args.save_params,
                             Join(SavedLines(param_vals), <<NL>>) \o <<NL>>)
                  ELSE written
    /\ pc' = "done"
    /\ exit_code' = 0
    /\ UNCHANGED <<args, fs, path_errs, template, params, pending, param_vals,
                   resolved, sample_groups, idx, error, reload>>
    /\ UNCHANGED <<splitVars, parseVars, reproVars>>

\* A later run given the saved file as -p/--parameters_fp and the same
\* template: main, line 177.
ReloadSaved ==
    /\ pc = "done"
    /\ args.save_params # None
    /\ reload' = parse_parameters_file(written[args.save_params], params)
    /\ pc' = "reloaded"
    /\ UNCHANGED <<args, fs, path_errs, template, params, pending, param_vals,
                   resolved, sample_groups, idx, written, exit_code, error>>
    /\ UNCHANGED <<splitVars, parseVars, reproVars>>

DistNext ==
    \/ VerifyPaths
    \/ ReadTemplate
    \/ InputParam
    \/ InputReturn
    \/ SplitSamples
    \/ MaterializeUnit
    \/ SaveParams
    \/ ReloadSaved

(***************************************************************************)
(* reprocess.py                                                            *)
(***************************************************************************)
\* re.search(pattern, text) for a pattern without metacharacters: the
\* pattern occurs somewhere in the text.
re_search(pattern, text) ==
    \E i \in 1..(Len(text) - Len(pattern) + 1) :
        SubSeq(text, i, i + Len(pattern) - 1) = pattern

\* A run index taken from the front of the stem.
RunIndexFirst(stem) == StrSplit(stem, "_")[1]

\* stem.split("_")[-1]
RunIndex(stem) == LET parts == StrSplit(stem, "_") IN parts[Len(parts)]

\* fp.stem.split('_')[0]
CompletedId(stem) == StrSplit(stem, "_")[1]

\* parse_log_files: log_files is the sequence of stems in the order the glob
\* yields them, logs gives each file's text.
RECURSIVE parse_log_files(_, _, _)
parse_log_files(log_files, logs, fail_str) ==
    IF log_files = <<>> THEN <<>>
    ELSE (IF re_search(fail_str, logs[Head(log_files)])
          THEN <<RunIndex(Head(log_files))>> ELSE <<>>)
         \o parse_log_files(Tail(log_files), logs, fail_str)

\* sorted(S) for a set of str.
RECURSIVE sorted(_)
sorted(S) ==
    IF S = {} THEN <<>>
    ELSE LET least == CHOOSE x \in S : \A y \in S \ {x} : StrLess(x, y)
         IN <<least>> \o sorted(S \ {least})

\* Path(s): the empty string is the current directory.
Path(s) == IF s = <<>> THEN Dot ELSE s
\* bool(p) for a pathlib.Path, which defines neither __bool__ nor __len__.
PathTruthy(q) == TRUE
\* Path.glob(pattern): ValueError("Unacceptable pattern") for an empty
\* pattern, else the matching files.
glob(pattern, matches) ==
    IF pattern = <<>> THEN [kind |-> "ValueError", value |-> {}]
    ELSE [kind |-> "ok", value |-> matches]

\* A result that subtracts the gathered samples from the completed ones.
gather_swapped(sample_files, runs, job_folder, job_out_pattern, outputs) ==
    LET failed_sample_files ==
            {f \in DOMAIN sample_files : RunIndex(f) \in Range(runs)}
        sample_ids ==
            UNION {Range(SplitLines(sample_files[f])) : f \in failed_sample_files}
        g == IF PathTruthy(job_folder) THEN glob(job_out_pattern, outputs)
             ELSE [kind |-> "ok", value |-> {}]
    IN IF g.kind # "ok"
       THEN [kind |-> g.kind, value |-> <<>>]
       ELSE [kind |-> "ok",
             value |-> sorted({CompletedId(o) : o \in g.value} \ sample_ids)]

\* gather_failed_samples: sample_files gives the text of each file matching
\* samples_pattern, outputs the stems matching job_out_pattern in job_folder.
gather_failed_samples(sample_files, runs, job_folder, job_out_pattern, outputs) ==
    LET failed_sample_files ==
            {f \in DOMAIN sample_files : RunIndex(f) \in Range(runs)}
        sample_ids ==
            UNION {Range(SplitLines(sample_files[f])) : f \in failed_sample_files}
        g == IF PathTruthy(job_folder) THEN glob(job_out_pattern, outputs)
             ELSE [kind |-> "ok", value |-> {}]
    IN IF g.kind # "ok"
       THEN [kind |-> g.kind, value |-> <<>>]
       ELSE [kind |-> "ok",
             value |-> sorted(sample_ids \ {CompletedId(o) : o \in g.value})]

\* write_failed_samples: the text of the output file.
write_failed_samples(samples) == Join(samples, <<NL>>)

\* ---- inputs --------------------------------------------------------------
FailString == <<"E", "r">>
LogTexts == {<<"x", "E", "r", "y">>, <<"r", "E">>}
LogStems == {<<"j", "_", "3">>, <<"j", "_", "7">>, <<"j", "_", "x", "_", "3">>}
SampleStems == {<<"j", "_", "s", "_", "3">>, <<"j", "_", "s", "_", "7">>, <<"7">>}
SampleTexts ==
    { <<"B", NL, "A", NL>>,
      <<"C", NL, "B", NL, "A">>,
      <<"A", "B", NL, "A", NL>> }
OutputStems == {<<"A", "_", "f">>, <<"B">>, <<"A", "B", "_", "x", "_", "y">>}

\* Directories: at most n of the names, each with one of the texts.
Files(names, texts, n) ==
    UNION {[S -> texts] : S \in {T \in SUBSET names : Cardinality(T) <= n}}

\* The orders in which a glob may yield the files of S.
Orders(S) ==
    {o \in [1..Cardinality(S) -> S] : \A i, j \in DOMAIN o : o[i] = o[j] => i = j}

ReproIdle ==
    /\ r_args = [job_folder |-> <<>>, job_out_pattern |-> <<>>]
    /\ r_logs = <<>> /\ r_samples = <<>> /\ r_outputs = {}
    /\ r_pc = "idle" /\ failed_runs = <<>> /\ failed_samples = <<>>
    /\ r_out = <<>> /\ r_exit = -1

\* -j/--job_folder and -p/--job_out_pattern default to "".
ReproInit ==
    /\ r_args \in [job_folder : {<<>>, OutDir}, job_out_pattern : {<<>>, <<"*">>}]
    /\ r_logs \in Files(LogStems, LogTexts, MaxLogs)
    /\ r_samples \in Files(SampleStems, SampleTexts, MaxSampleFiles)
    /\ r_outputs \in SUBSET OutputStems
    /\ r_pc = "start" /\ failed_runs = <<>> /\ failed_samples = <<>>
    /\ r_out = <<>> /\ r_exit = -1

\* main, line 93.
ParseLogFiles ==
    /\ r_pc = "start"
    /\ \E order \in Orders(DOMAIN r_logs) :
         failed_runs' = parse_log_files(order, r_logs, FailString)
    /\ r_pc' = "gather"
    /\ UNCHANGED <<r_args, r_logs, r_samples, r_outputs, failed_samples, r_out, r_exit>>
    /\ UNCHANGED <<splitVars, parseVars, distVars>>

\* main, lines 94-97: an uncaught ValueError ends the process with status 1.
GatherFailedSamples ==
    /\ r_pc = "gather"
    /\ LET r == gather_failed_samples(r_samples, failed_runs, Path(r_args.job_folder),
                                      r_args.job_out_pattern, r_outputs)
       IN IF r.kind = "ok"
          THEN failed_samples' = r.value /\ r_pc' = "write" /\ r_exit' = r_exit
          ELSE failed_samples' = failed_samples /\ r_pc' = "error" /\ r_exit' = 1
    /\ UNCHANGED <<r_args, r_logs, r_samples, r_outputs, failed_runs, r_out>>
    /\ UNCHANGED <<splitVars, parseVars, distVars>>

\* main, lines 100-101, and the return of main.
WriteFailedSamples ==
    /\ r_pc = "write"
    /\ r_out' = write_failed_samples(failed_samples)
    /\ r_pc' = "done"
    /\ r_exit' = 0
    /\ UNCHANGED <<r_args, r_logs, r_samples, r_outputs, failed_runs, failed_samples>>
    /\ UNCHANGED <<splitVars, parseVars, distVars>>

ReproNext ==
    \/ ParseLogFiles
    \/ GatherFailedSamples
    \/ WriteFailedSamples

InitSplit == SplitInit /\ ParseIdle /\ DistIdle /\ ReproIdle
SpecSplit == InitSplit /\ [][SplitCall]_vars

InitParse == SplitIdle /\ ParseInit /\ DistIdle /\ ReproIdle
SpecParse == InitParse /\ [][ParseCall]_vars

InitDistribute == SplitIdle /\ ParseIdle /\ DistInit /\ ReproIdle
SpecDistribute == InitDistribute /\ [][DistNext]_vars

InitReprocess == SplitIdle /\ ParseIdle /\ DistIdle /\ ReproInit
SpecReprocess == InitReprocess /\ [][ReproNext]_vars

(***************************************************************************)
(* Properties.                                                             *)
(***************************************************************************)
Contains(s, c) == FirstIndex(s, c, 1) # 0

\* The chunks of a list, one after the other.
RECURSIVE Concat(_)
Concat(ss) == IF ss = <<>> THEN <<>> ELSE Head(ss) \o Concat(Tail(ss))

\* The keys a parameter file supplies: the text before the first colon of
\* each line that has one, without surrounding whitespace.
SuppliedKeys(text) ==
    {Strip(StrSplit(l, ":")[1]) : l \in {m \in Range(SplitLines(text)) : Contains(m, ":")}}

\* Every line of the parameter file has the name: value delimiter.
EveryLineDelimited(text) == \A l \in Range(SplitLines(text)) : Contains(l, ":")

\* P - K - {job_id, samples_fp} for placeholder set P and the file's keys K.
MissingNonReserved(P, text) == (P \ SuppliedKeys(text)) \ Reserved

NonReservedMap(d) == [k \in Keys(d) \ Reserved |-> Get(d, k)]

\* C1: for a non-empty list and a positive chunk size, the chunks of split
\* concatenate to the list, every chunk but the last has exactly `size`
\* elements, and the last has between 1 and `size`.
C1_SplitChunks ==
    (sp_pc = "done" /\ sp_items # <<>> /\ sp_partitions > 0) =>
        /\ sp_result # <<>>
        /\ Concat(sp_result) = sp_items
        /\ \A k \in 1..(Len(sp_result) - 1) : Len(sp_result[k]) = sp_partitions
        /\ Len(sp_result[Len(sp_result)]) \in 1..sp_partitions

C1_Witness ==
    /\ sp_pc = "done" /\ Len(sp_items) = 4 /\ sp_partitions = 3
    /\ Len(sp_result) = 2 /\ Len(sp_result[2]) = 1

\* C2 as stated: for any parameter file, resolution succeeds iff no
\* non-reserved placeholder lacks a key, and on success every non-reserved
\* placeholder has a value.
C2_AnyFile ==
    (pf_pc = "done") =>
        /\ (pf_result.kind = "ok") <=>
               (MissingNonReserved(pf_params, pf_content) = {})
        /\ (pf_result.kind = "ok") =>
               \A q \in pf_params \ Reserved : HasKey(pf_result.value, q)

\* C2 (amended): for any parameter file whose every line has the name: value
\* delimiter, resolution succeeds iff no non-reserved placeholder lacks a
\* key, and on success every non-reserved placeholder has a value.
C2_DelimitedFile ==
    (pf_pc = "done" /\ EveryLineDelimited(pf_content)) =>
        /\ (pf_result.kind = "ok") <=>
               (MissingNonReserved(pf_params, pf_content) = {})
        /\ (pf_result.kind = "ok") =>
               \A q \in pf_params \ Reserved : HasKey(pf_result.value, q)

C2_Witness ==
    /\ pf_pc = "done" /\ pf_result.kind = "ok"
    /\ EveryLineDelimited(pf_content)
    /\ {NameA, job_id} \subseteq pf_params
    /\ job_id \notin SuppliedKeys(pf_content)
    /\ Len(pf_result.value) = 2

\* C3: when resolution fails for missing parameters, the names the error
\* carries and lists are exactly the missing non-reserved placeholders; a
\* reserved name is never reported.
C3_MissingExact ==
    (pf_pc = "done" /\ pf_result.kind = "ParametersException") =>
        LET expected == MissingNonReserved(pf_params, pf_content) IN
        /\ pf_result.missing_params = expected
        /\ pf_result.message = {<<" ", " ">> \o q : q \in expected}

\* ---- main ---------------------------------------------------------------
\* A validation of the run fails: a required input path does not exist, the
\* output directory cannot be created, or the parameter file read lacks a
\* non-reserved placeholder of the template.
ValidationFails ==
    \/ \E q \in InputPaths(args) : q \notin fs.exists
    \/ args.output_dir # Dot /\ args.output_dir \notin fs.exists /\ ~fs.mkdir_ok
    \/ /\ args.parameters_fp \in fs.opened
       /\ MissingNonReserved(params, fs.params_text) # {}

\* C4: if a validation fails, the run ends with a non-zero exit and has
\* written no file at any point; a file is written only after the paths were
\* verified and the parameters resolved.
C4_NoOutputOnValidationFailure ==
    /\ ValidationFails =>
          /\ written = <<>>
          /\ pc \in {"verify", "exit"}
          /\ pc = "exit" => exit_code > 0
    /\ written # <<>> =>
          /\ path_errs # <<>> /\ \A i \in 1..Len(path_errs) : path_errs[i]
          /\ args.parameters_fp # None => args.parameters_fp \in fs.opened
          /\ (params \ Reserved) \subseteq Keys(resolved)

C4_Witness ==
    /\ pc = "exit" /\ error = "ParametersException" /\ exit_code = 1
    /\ args.output_dir = OutDir /\ OutDir \in fs.exists
    /\ args.save_params # None
    /\ written = <<>>

\* Unit i of the run: chunk i of the sample list, cut at multiples of the
\* chunk size.
ExpectedChunk(i) ==
    LET ids == SplitLines(fs.samples_text) IN
    SubSeq(ids, (i - 1) * args.partition + 1, Min(i * args.partition, Len(ids)))

ExpectedUnits ==
    IF args.split_sample_ids_fps # None THEN Len(args.split_sample_ids_fps)
    ELSE IF args.partition <= 0 THEN 0
    ELSE LET n == Len(SplitLines(fs.samples_text)) IN
         (n + args.partition - 1) \div args.partition

ExpectedSamplesFp(i) ==
    IF args.split_sample_ids_fps # None THEN args.split_sample_ids_fps[i]
    ELSE UnitSamplesFp(i)

ExpectedScript(i) ==
    format(template,
           DictSet(DictSet(resolved, job_id, Str(i)), samples_fp, ExpectedSamplesFp(i))).text

C9_OnlyReservedChange ==
    /\ pc \in {"split", "output", "done", "reloaded"} =>
          NonReservedMap(param_vals) = NonReservedMap(resolved)
    /\ (pc \in {"done", "reloaded"} /\ args.save_params # None) =>
          LET lines == SplitLines(written[args.save_params])
              listed == {i \in 1..Len(lines) : lines[i] # <<>>}
              entries == {k \o <<":", " ">> \o Get(resolved, k) :
                            k \in Keys(resolved) \ Reserved}
          IN /\ {lines[i] : i \in listed} = entries
             /\ Cardinality(listed) = Cardinality(entries)

C9_Witness ==
    /\ pc = "done" /\ args.save_params # None /\ idx >= 1
    /\ job_id \in Keys(resolved)
    /\ Keys(resolved) \ Reserved # {}
    /\ Get(param_vals, job_id) # Get(resolved, job_id)

\* C10: the saved parameter file is accepted by file-mode resolution for the
\* same template, and the mapping read back equals the non-reserved entries
\* of the mapping that was saved.
C10_SaveLoadRoundTrip ==
    (pc = "reloaded") =>
        /\ reload.kind = "ok"
        /\ AsMap(reload.value) = NonReservedMap(resolved)

\* ---- reprocess ----------------------------------------------------------
\* The text after the last underscore of a stem (the whole stem if none).
AfterLastUnderscore(stem) == SubSeq(stem, LastIndex(stem, "_", Len(stem)) + 1, Len(stem))

\* The text before the first underscore of a stem (the whole stem if none).
BeforeFirstUnderscore(stem) ==
    LET k == FirstIndex(stem, "_", 1) IN
    IF k = 0 THEN stem ELSE SubSeq(stem, 1, k - 1)

\* The sample IDs of the subset files whose run-index token is that of a log
\* containing the failure marker.
GatheredIds(logs, samples) ==
    {id \in UNION {Range(SplitLines(samples[f])) : f \in DOMAIN samples} :
        \E f \in DOMAIN samples, l \in DOMAIN logs :
            /\ re_search(FailString, logs[l])
            /\ AfterLastUnderscore(l) = AfterLastUnderscore(f)
            /\ id \in Range(SplitLines(samples[f]))}

StrictlyAscending(q) == \A i \in 1..(Len(q) - 1) : StrLess(q[i], q[i + 1])

\* C5: the reconciler returns, ascending and without duplicates, exactly the
\* sample IDs of the failed runs' subset files that are not the prefix token
\* of a completed-output file.
C5_ResidualExact ==
    (r_pc \in {"write", "done"}) =>
        /\ StrictlyAscending(failed_samples)
        /\ Range(failed_samples) =
              GatheredIds(r_logs, r_samples)
                 \ {BeforeFirstUnderscore(o) : o \in r_outputs}

C5_Witness ==
    /\ r_pc = "done" /\ Len(failed_samples) >= 2
    /\ \E o \in r_outputs : BeforeFirstUnderscore(o) \in GatheredIds(r_logs, r_samples)
    /\ \E f \in DOMAIN r_samples :
          \A l \in DOMAIN r_logs :
              re_search(FailString, r_logs[l]) =>
                  AfterLastUnderscore(l) # AfterLastUnderscore(f)
    /\ \E l \in DOMAIN r_logs : ~re_search(FailString, r_logs[l])

\* C6: run with the defaults (no job folder, no job-output pattern), the
\* reconciler completes normally with nothing subtracted: the residual set
\* is every sample ID gathered from the failed runs' subset files.
C6_DefaultsComplete ==
    (/\ r_args.job_folder = <<>> /\ r_args.job_out_pattern = <<>>
     /\ r_pc \notin {"start", "gather"}) =>
        /\ r_pc \in {"write", "done"}
        /\ Range(failed_samples) = GatheredIds(r_logs, r_samples)

\* The residual set of a run on the given logs, subset files and outputs.
Residual(logs, samples, outputs) ==
    Range(gather_failed_samples(
              samples,
              parse_log_files(CHOOSE o \in Orders(DOMAIN logs) : TRUE, logs, FailString),
              Path(r_args.job_folder), r_args.job_out_pattern, outputs).value)

\* The logs with one more log file, which contains the failure marker.
MoreFailedLogs ==
    {[l \in (DOMAIN r_logs) \cup {n} |-> IF l = n THEN t ELSE r_logs[l]] :
        n \in LogStems \ DOMAIN r_logs,
        t \in {u \in LogTexts : re_search(FailString, u)}}

\* C7: with the other inputs fixed, one more completed-output file never
\* adds a sample ID to the residual set, and one more log containing the
\* failure marker never removes one.
C7_Monotone ==
    (r_pc \in {"write", "done"}) =>
        /\ \A o \in OutputStems :
              Residual(r_logs, r_samples, r_outputs \cup {o}) \subseteq Range(failed_samples)
        /\ \A logs \in MoreFailedLogs :
              Range(failed_samples) \subseteq Residual(logs, r_samples, r_outputs)

C7_Witness ==
    /\ r_pc = "done" /\ failed_samples # <<>>
    /\ \E o \in OutputStems \ r_outputs :
          Residual(r_logs, r_samples, r_outputs \cup {o}) # Range(failed_samples)
    /\ \E logs \in MoreFailedLogs :
          Residual(logs, r_samples, r_outputs) # Range(failed_samples)

====
